---------------------------- MODULE Spec2Model ----------------------------
(***************************************************************************)
(* AdarshPulse dashboard (src/app.py) and its command-line prototype       *)
(* (src/prototype.py): the gap / priority-score engine, the priority       *)
(* colour bands, the top-5 ranking and the progress simulation.            *)
(*                                                                         *)
(* Number representation.                                                  *)
(*  - Counts (population, households, schools, toilets, PHCs,              *)
(*    water_points) are the integers of the data frame.                    *)
(*  - electricity_hours is a real column; the model stores it in           *)
(*    half-hours (fixed point, scale 2): the field value 47 is 23.5 h.     *)
(*  - toilets_per_household is a float slider; the model stores it in      *)
(*    tenths (10, 11, 12 for 1.0, 1.1, 1.2) and multiplies with the        *)
(*    IEEE-754 double nearest to that decimal, limb by limb.               *)
(***************************************************************************)
EXTENDS Integers, Sequences, FiniteSets

VARIABLES
    loaded,               \* the frame load_data() returns (cached CSV rows)
    ADJUSTED_THRESHOLDS,  \* the five sidebar sliders
    df,                   \* the frame after "Apply Calculations"
    top_villages,         \* df.sort_values(...).head(5)
    sim,                  \* what the Simulate branch computed in this run
    proto                 \* what prototype.py computed (its own df columns)

vars == <<loaded, ADJUSTED_THRESHOLDS, df, top_villages, sim, proto>>

-----------------------------------------------------------------------------
(* Arithmetic of the Python expressions *)

Min(a, b) == IF a < b THEN a ELSE b

Max(a, b) == IF a > b THEN a ELSE b

RECURSIVE Pow2(_)
Pow2(n) == IF n = 0 THEN 1 ELSE 2 * Pow2(n - 1)

RECURSIVE FloorLog2(_)
FloorLog2(n) == IF n < 2 THEN 0 ELSE 1 + FloorLog2(n \div 2)

\* math.ceil(a / b) for integers a >= 0, b > 0.  a / b is the correctly
\* rounded double quotient; when b does not divide a the exact quotient is
\* at least 1/b away from every integer, far more than the rounding error
\* for the magnitudes of a data frame, so the ceiling is the exact one.
ceil_div(a, b) == (a + b - 1) \div b

\* The 52 fraction bits of the double nearest to tenths/10, as four 13-bit
\* limbs, least significant first:
\*   1.0 = 0x1.0000000000000p+0, 1.1 = 0x1.199999999999ap+0,
\*   1.2 = 0x1.3333333333333p+0.
DoubleFraction(tenths) ==
    CASE tenths = 10 -> <<0, 0, 0, 0>>
      [] tenths = 11 -> <<6554, 3276, 1638, 819>>
      [] tenths = 12 -> <<4915, 6553, 3276, 1638>>

\* math.ceil(h * t) for an integer 0 <= h < 6800 and the double t in [1, 2)
\* with fraction limbs DoubleFraction(tenths): the exact product
\* h * (2^52 + fraction) is formed in base 2^13, rounded to 53 significant
\* bits (round half to even), and its ceiling taken.
float_mul_ceil(h, tenths) ==
    LET f  == DoubleFraction(tenths)
        c0 == h * f[1]
        c1 == h * f[2] + (c0 \div 8192)
        c2 == h * f[3] + (c1 \div 8192)
        c3 == h * f[4] + (c2 \div 8192)
        p0 == c0 % 8192
        p1 == c1 % 8192
        p2 == c2 % 8192
        p3 == c3 % 8192
        I  == h + (c3 \div 8192)            \* integer part of the exact product
        e  == FloorLog2(I)                  \* bits beyond the 53 that fit
        low == p0 % Pow2(e)                 \* the bits rounding drops
        kept_odd == IF e < 13 THEN (p0 \div Pow2(e)) % 2 = 1 ELSE p1 % 2 = 1
        up == /\ e > 0
              /\ \/ 2 * low > Pow2(e)
                 \/ 2 * low = Pow2(e) /\ kept_odd
        frac_left == (p0 - low) # 0 \/ p1 # 0 \/ p2 # 0 \/ p3 # 0
    IN  IF h = 0 THEN 0
        ELSE IF up \/ frac_left THEN I + 1 ELSE I

-----------------------------------------------------------------------------
(* Configuration *)

BASE_THRESHOLDS ==
    [ schools_per_1000       |-> 1,
      toilets_per_household  |-> 10,
      PHCs_min               |-> 1,
      water_points_per_50_hh |-> 1,
      electricity_hours_min  |-> 24 ]

\* The value ranges of the five sidebar sliders.
SliderRange ==
    [ schools_per_1000       |-> 1..3,
      toilets_per_household  |-> 10..12,
      PHCs_min               |-> 1..3,
      water_points_per_50_hh |-> 1..3,
      electricity_hours_min  |-> 10..24 ]

SliderNames == DOMAIN SliderRange

-----------------------------------------------------------------------------
(* Gap and score calculation, src/app.py *)

required_schools(row, t) ==
    Max(1, ceil_div(row.population, 1000) * t.schools_per_1000)

required_toilets(row, t) ==
    float_mul_ceil(row.households, t.toilets_per_household)

required_PHCs(row, t) == t.PHCs_min

\* fault: the slider scales the 50 households instead of the points
required_water_per_scaled_households(row, t) ==
    Max(1, ceil_div(row.households, 50 * t.water_points_per_50_hh))

required_water(row, t) ==
    Max(1, ceil_div(row.households, 50) * t.water_points_per_50_hh)

\* in half-hours, like row.electricity_hours
required_electricity(row, t) == 2 * t.electricity_hours_min

NoGaps == [gaps |-> <<>>, score |-> 0, improvements |-> <<>>]

AddGap(acc, name, need, target, points) ==
    [ gaps  |-> Append(acc.gaps, name),
      score |-> acc.score + points,
      improvements |->
          Append(acc.improvements, [what |-> name, need |-> need, target |-> target]) ]

schools_rule(acc, row, t) ==
    LET required == required_schools(row, t)
        need     == required - row.schools
    IN  IF row.schools < required
        THEN AddGap(acc, "Schools", need, required, need)
        ELSE acc

\* fault: one point per missing toilet
toilets_score_per_toilet(need) == Min(5, need)

\* fault: the cap of 5 left out
toilets_score_uncapped(need) == ceil_div(need, 100)

toilets_score(need) == Min(5, ceil_div(need, 100))

toilets_rule(acc, row, t) ==
    LET required == required_toilets(row, t)
        need     == required - row.toilets
    IN  IF row.toilets < required
        THEN AddGap(acc, "Toilets", need, required, toilets_score(need))
        ELSE acc

\* fault: the weight of 3 left out
PHCs_rule_unweighted(acc, row, t) ==
    LET required == required_PHCs(row, t)
        need     == required - row.PHCs
    IN  IF row.PHCs < required
        THEN AddGap(acc, "PHCs", need, required, need)
        ELSE acc

PHCs_rule(acc, row, t) ==
    LET required == required_PHCs(row, t)
        need     == required - row.PHCs
    IN  IF row.PHCs < required
        THEN AddGap(acc, "PHCs", need, required, need * 3)
        ELSE acc

water_rule(acc, row, t) ==
    LET required == required_water(row, t)
        need     == required - row.water_points
    IN  IF row.water_points < required
        THEN AddGap(acc, "Water Points", need, required, need)
        ELSE acc

\* fault: whole blocks of 4 hours only (floor for ceil)
electricity_score_whole_blocks(deficit) == deficit \div 8

\* math.ceil((required - hours) / 4), the deficit being in half-hours here
electricity_score(deficit) == ceil_div(deficit, 8)

electricity_rule(acc, row, t) ==
    LET required == required_electricity(row, t)
    IN  IF row.electricity_hours < required
        THEN AddGap(acc, "Electricity", 0, t.electricity_hours_min,
                    electricity_score(required - row.electricity_hours))
        ELSE acc

calculate_gaps(row, base_thresholds) ==
    LET a1 == schools_rule(NoGaps, row, base_thresholds)
        a2 == toilets_rule(a1, row, base_thresholds)
        a3 == PHCs_rule(a2, row, base_thresholds)
        a4 == water_rule(a3, row, base_thresholds)
    IN  electricity_rule(a4, row, base_thresholds)

\* fault: red only above 10
assign_priority_color_above_10(score) ==
    IF score > 10 THEN "red"
    ELSE IF score >= 5 THEN "orange"
    ELSE "green"

assign_priority_color(score) ==
    IF score >= 10 THEN "red"
    ELSE IF score >= 5 THEN "orange"
    ELSE "green"


Raw(row) ==
    [ index             |-> row.index,
      village_name      |-> row.village_name,
      population        |-> row.population,
      households        |-> row.households,
      schools           |-> row.schools,
      toilets           |-> row.toilets,
      PHCs              |-> row.PHCs,
      water_points      |-> row.water_points,
      electricity_hours |-> row.electricity_hours ]

Enriched(row, g) ==
    [ index             |-> row.index,
      village_name      |-> row.village_name,
      population        |-> row.population,
      households        |-> row.households,
      schools           |-> row.schools,
      toilets           |-> row.toilets,
      PHCs              |-> row.PHCs,
      water_points      |-> row.water_points,
      electricity_hours |-> row.electricity_hours,
      gaps_list         |-> g.gaps,
      priority_score    |-> g.score,
      improvements_list |-> g.improvements,
      priority_color    |-> assign_priority_color(g.score) ]

\* "Apply Calculations": the three derived columns and the colour column,
\* row by row, in frame order.
ApplyCalculations(frame, thresholds) ==
    [ i \in 1..Len(frame) |-> Enriched(frame[i], calculate_gaps(frame[i], thresholds)) ]

\* DataFrame.sort_values(by="priority_score", ascending=False) with the
\* default kind="quicksort", which pandas documents as not stable: every
\* arrangement of the rows with non-increasing score is a possible result.
RECURSIVE Arrangements(_, _)
Arrangements(frame, left) ==
    IF left = {} THEN { <<>> }
    ELSE UNION { { <<frame[i]>> \o rest : rest \in Arrangements(frame, left \ {i}) } :
                 i \in { j \in left :
                           \A k \in left : frame[j].priority_score >= frame[k].priority_score } }

sort_values(frame) == Arrangements(frame, 1..Len(frame))

head(frame, n) == SubSeq(frame, 1, Min(n, Len(frame)))

TopVillages(frame) == { head(sorted, 5) : sorted \in sort_values(frame) }

-----------------------------------------------------------------------------
(* Progress simulation, src/app.py *)

InfraOptions == {"School", "Toilet (100 HH)", "PHC", "Water Point", "Electricity Hours"}

IncrementRange == 1..5

\* df[df["village_name"] == name].iloc[0]: the first row of that name
FirstNamed(frame, name) ==
    frame[CHOOSE i \in 1..Len(frame) :
            /\ frame[i].village_name = name
            /\ \A j \in 1..(i - 1) : frame[j].village_name # name]

\* fault: the clamp at 24 hours left out
ApplyUpgrade_unclamped(row, infra, increment) ==
    CASE infra = "School"            -> [row EXCEPT !.schools = @ + increment]
      [] infra = "PHC"               -> [row EXCEPT !.PHCs = @ + increment]
      [] infra = "Water Point"       -> [row EXCEPT !.water_points = @ + increment]
      [] infra = "Toilet (100 HH)"   -> [row EXCEPT !.toilets = @ + increment * 100]
      [] infra = "Electricity Hours" -> [row EXCEPT !.electricity_hours = @ + 2 * increment]

\* fault: the hours set to the increment instead of raised by it
ApplyUpgrade_hours_replaced(row, infra, increment) ==
    CASE infra = "School"            -> [row EXCEPT !.schools = @ + increment]
      [] infra = "PHC"               -> [row EXCEPT !.PHCs = @ + increment]
      [] infra = "Water Point"       -> [row EXCEPT !.water_points = @ + increment]
      [] infra = "Toilet (100 HH)"   -> [row EXCEPT !.toilets = @ + increment * 100]
      [] infra = "Electricity Hours" ->
             [row EXCEPT !.electricity_hours = Min(2 * 24, 2 * increment)]

\* the upgrade applied to the copy; hours are kept in half-hours
ApplyUpgrade(row, infra, increment) ==
    CASE infra = "School"            -> [row EXCEPT !.schools = @ + increment]
      [] infra = "PHC"               -> [row EXCEPT !.PHCs = @ + increment]
      [] infra = "Water Point"       -> [row EXCEPT !.water_points = @ + increment]
      [] infra = "Toilet (100 HH)"   -> [row EXCEPT !.toilets = @ + increment * 100]
      [] infra = "Electricity Hours" ->
             [row EXCEPT !.electricity_hours = Min(2 * 24, @ + 2 * increment)]

NoSim == [pressed |-> FALSE]

SimulateResult(frame, thresholds, sim_village, infra, increment) ==
    LET sim_row   == ApplyUpgrade(FirstNamed(frame, sim_village), infra, increment)
        new_score == calculate_gaps(sim_row, thresholds).score
    IN  [ pressed        |-> TRUE,
          sim_village    |-> sim_village,
          infra          |-> infra,
          increment      |-> increment,
          sim_row        |-> sim_row,
          new_score      |-> new_score,
          new_color      |-> assign_priority_color(new_score),
          original_score |-> FirstNamed(frame, sim_village).priority_score,
          original_color |-> FirstNamed(frame, sim_village).priority_color ]

-----------------------------------------------------------------------------
(* The prototype, src/prototype.py *)

prototype_BASE_THRESHOLDS ==
    [ schools_per_1000       |-> 1,
      toilets_per_household  |-> 10,
      PHCs_min               |-> 1,
      water_points_per_50_hh |-> 1,
      electricity_hours_min  |-> 24 ]

ProtoAdd(acc, name, points) ==
    [gaps |-> Append(acc.gaps, name), score |-> acc.score + points]

analyze_gaps(row) ==
    LET t  == prototype_BASE_THRESHOLDS
        a0 == [gaps |-> <<>>, score |-> 0]
        rs == Max(1, ceil_div(row.population, 1000) * t.schools_per_1000)
        a1 == IF row.schools < rs THEN ProtoAdd(a0, "Schools", rs - row.schools) ELSE a0
        rt == float_mul_ceil(row.households, t.toilets_per_household)
        a2 == IF row.toilets < rt
              THEN ProtoAdd(a1, "Toilets", Min(5, ceil_div(rt - row.toilets, 100)))
              ELSE a1
        a3 == IF row.PHCs < t.PHCs_min THEN ProtoAdd(a2, "PHC", 3) ELSE a2
        a4 == IF row.electricity_hours < 2 * t.electricity_hours_min
              THEN ProtoAdd(a3, "Electricity",
                            ceil_div(2 * t.electricity_hours_min - row.electricity_hours, 8))
              ELSE a3
        rw == Max(1, ceil_div(row.households, 50) * t.water_points_per_50_hh)
    IN  IF row.water_points < rw THEN ProtoAdd(a4, "Water", rw - row.water_points) ELSE a4

PrototypeFrame(frame) ==
    [ i \in 1..Len(frame) |->
        [ index          |-> frame[i].index,
          village_name   |-> frame[i].village_name,
          gaps_list      |-> analyze_gaps(frame[i]).gaps,
          priority_score |-> analyze_gaps(frame[i]).score ] ]

NotRun == [ran |-> FALSE]

-----------------------------------------------------------------------------
(* One run of the dashboard script; each widget interaction is one run *)

\* The script from "Apply Calculations" to the ranking, for the thresholds
\* the sliders hold in this run.  The sort is a fixed function of its input
\* in one build: the same frame is ranked the same way again.
ScriptRun(thresholds) ==
    /\ df' = ApplyCalculations(loaded, thresholds)
    /\ top_villages' \in IF df' = df THEN {top_villages} ELSE TopVillages(df')

\* A slider is moved to another value of its range.
SliderChange(name, value) ==
    /\ value \in SliderRange[name]
    /\ value # ADJUSTED_THRESHOLDS[name]
    /\ ADJUSTED_THRESHOLDS' = [ADJUSTED_THRESHOLDS EXCEPT ![name] = value]
    /\ ScriptRun(ADJUSTED_THRESHOLDS')
    /\ sim' = NoSim
    /\ UNCHANGED <<loaded, proto>>

\* Another widget (a select box) changes: the script runs, the button is up.
Rerun ==
    /\ ScriptRun(ADJUSTED_THRESHOLDS)
    /\ sim' = NoSim
    /\ UNCHANGED <<loaded, ADJUSTED_THRESHOLDS, proto>>

\* fault: the upgrade applied to the frame's own row instead of a copy
Simulate_in_place ==
    \E sim_village \in { loaded[i].village_name : i \in 1..Len(loaded) } :
      \E infra \in InfraOptions : \E increment \in IncrementRange :
        LET d   == ApplyCalculations(loaded, ADJUSTED_THRESHOLDS)
            r   == SimulateResult(d, ADJUSTED_THRESHOLDS, sim_village, infra, increment)
            idx == CHOOSE i \in 1..Len(d) : d[i] = FirstNamed(d, sim_village)
        IN  /\ df' = [d EXCEPT ![idx] = r.sim_row]
            /\ top_villages' \in TopVillages(d)
            /\ sim' = r
            /\ UNCHANGED <<loaded, ADJUSTED_THRESHOLDS, proto>>

\* The Simulate button is pressed: the script runs as ever, and its
\* Simulate branch works on the village, upgrade and increment selected.
Simulate ==
    /\ ScriptRun(ADJUSTED_THRESHOLDS)
    /\ \E sim_village \in { df'[i].village_name : i \in 1..Len(df') } :
         \E infra \in InfraOptions : \E increment \in IncrementRange :
            sim' = SimulateResult(df', ADJUSTED_THRESHOLDS, sim_village, infra, increment)
    /\ UNCHANGED <<loaded, ADJUSTED_THRESHOLDS, proto>>

\* prototype.py is run on the same CSV.
PrototypeRun ==
    /\ proto = NotRun
    /\ proto' \in { [ran |-> TRUE, df |-> PrototypeFrame(loaded), top |-> t] :
                    t \in TopVillages(PrototypeFrame(loaded)) }
    /\ UNCHANGED <<loaded, ADJUSTED_THRESHOLDS, df, top_villages, sim>>

\* The state after the first run of the script on a CSV: sliders at their
\* defaults, button up.
FirstRun(frame) ==
    /\ loaded = frame
    /\ ADJUSTED_THRESHOLDS = BASE_THRESHOLDS
    /\ df = ApplyCalculations(frame, BASE_THRESHOLDS)
    /\ top_villages \in TopVillages(ApplyCalculations(frame, BASE_THRESHOLDS))
    /\ sim = NoSim
    /\ proto = NotRun

-----------------------------------------------------------------------------
(* Bounded inputs *)

MaxPopThousands == 2

MaxSchools == 3

MaxPHCs == 3

MaxWaterPoints == 3

Village(name, population, households, schools, toilets, PHCs, water_points, half_hours) ==
    [ index             |-> 0,
      village_name      |-> name,
      population        |-> population,
      households        |-> households,
      schools           |-> schools,
      toilets           |-> toilets,
      PHCs              |-> PHCs,
      water_points      |-> water_points,
      electricity_hours |-> half_hours ]

\* read_csv gives the rows a RangeIndex: 0, 1, 2, ...
Frame(rows) == [ i \in 1..Len(rows) |-> [rows[i] EXCEPT !.index = i - 1] ]

\* the two examples of the specification's section 8
ExampleRow == Village("Rampur", 1000, 100, 0, 0, 0, 0, 0)

MetRow == Village("Sitapur", 500, 50, 1, 50, 1, 1, 48)

Populations == UNION { {1000 * k, 1000 * k + 1} : k \in 0..MaxPopThousands }

HouseholdCounts == {0, 49, 51, 100, 600}

ToiletCounts == {0, 49, 55, 56, 59, 60}

\* half-hours: 0 h, 9.5 h, 10 h, 20 h, 23.5 h, 24.5 h, 30 h
HalfHourCounts == {0, 19, 20, 40, 47, 49, 60}

\* one field of the village that meets every default standard varied
VariedRows ==
    { [MetRow EXCEPT !.population = x] : x \in Populations }
    \cup { [MetRow EXCEPT !.households = x] : x \in HouseholdCounts }
    \cup { [MetRow EXCEPT !.schools = x] : x \in 0..MaxSchools }
    \cup { [MetRow EXCEPT !.toilets = x] : x \in ToiletCounts }
    \cup { [MetRow EXCEPT !.PHCs = x] : x \in 0..MaxPHCs }
    \cup { [MetRow EXCEPT !.water_points = x] : x \in 0..MaxWaterPoints }
    \cup { [MetRow EXCEPT !.electricity_hours = x] : x \in HalfHourCounts }

\* every rule either far short or met under every slider setting
CornerRows ==
    { Village("Corner", 2001, 600, s, t, p, w, e) :
        s \in {0, 9}, t \in {0, 720}, p \in {0, 3}, w \in {0, 36}, e \in {0, 48} }

GapRows == {ExampleRow} \cup VariedRows \cup CornerRows

-----------------------------------------------------------------------------
(* The gap engine under every slider setting: one village, all sliders *)

InitGaps == \E row \in GapRows : FirstRun(Frame(<<row>>))

NextGaps == \E name \in SliderNames : \E value \in SliderRange[name] : SliderChange(name, value)

SpecGaps == InitGaps /\ [][NextGaps]_vars

-----------------------------------------------------------------------------
(* The progress simulation: Simulate and plain reruns, from a sample of      *)
(* slider settings                                                           *)

\* slider settings a user has reached before simulating: every slider at an
\* end of its range with the float slider at each of its three stops, and
\* one slider anywhere in its range with the others at their defaults
SimThresholds ==
    [ schools_per_1000       : {1, 3},
      toilets_per_household  : {10, 11, 12},
      PHCs_min               : {1, 3},
      water_points_per_50_hh : {1, 3},
      electricity_hours_min  : {10, 24} ]
    \cup UNION { { [BASE_THRESHOLDS EXCEPT ![name] = value] :
                     value \in SliderRange[name] } : name \in SliderNames }

SimRows ==
    {ExampleRow} \cup VariedRows
    \cup { Village("Corner", 2001, 600, 0, 0, 0, 0, 0),
           Village("Corner", 2001, 600, 9, 720, 3, 36, 48),
           Village("Corner", 2001, 600, 9, 300, 3, 36, 60) }

\* two-village frames, the second possibly a namesake of the first
PairRows == {ExampleRow, MetRow}

SimFrames ==
    { Frame(<<r>>) : r \in SimRows } \cup { Frame(<<r1, r2>>) : r1 \in PairRows, r2 \in PairRows }

Init ==
    \E frame \in SimFrames : \E t \in SimThresholds :
        /\ loaded = frame
        /\ ADJUSTED_THRESHOLDS = t
        /\ df = ApplyCalculations(frame, t)
        /\ top_villages \in TopVillages(df)
        /\ sim = NoSim
        /\ proto = NotRun

Next == Simulate \/ Rerun

Spec == Init /\ [][Next]_vars

-----------------------------------------------------------------------------
(* The toilet rule alone: two villages that differ in toilets, the toilet   *)
(* slider moved                                                              *)

MaxToiletHundreds == 7

ToiletStock == { 100 * k + d : k \in 0..MaxToiletHundreds, d \in {0, 1, 99} }

\* 600 households; every other standard met under the default sliders
ToiletRow(name, toilets) == Village(name, 500, 600, 1, toilets, 1, 12, 48)

InitToilets ==
    \E t1 \in ToiletStock : \E t2 \in ToiletStock :
        FirstRun(Frame(<<ToiletRow("Rampur", t1), ToiletRow("Sitapur", t2)>>))

NextToilets ==
    \E value \in SliderRange.toilets_per_household :
        SliderChange("toilets_per_household", value)

SpecToilets == InitToilets /\ [][NextToilets]_vars

-----------------------------------------------------------------------------
(* The prototype beside the dashboard, both under their base thresholds     *)

ProtoRows ==
    { Village("Rampur", pop, hh, s, t, p, w, e) :
        pop \in Populations, hh \in {0, 50, 51, 600}, s \in 0..MaxSchools,
        t \in {0, 50, 51, 100, 600}, p \in 0..MaxPHCs, w \in {0, 1, 2, 12},
        e \in {0, 47, 48, 60} }

InitProto == \E row \in ProtoRows : FirstRun(Frame(<<row>>))

NextProto == PrototypeRun

SpecProto == InitProto /\ [][NextProto]_vars

-----------------------------------------------------------------------------
(* The ranking: frames of up to MaxVillages villages with tied scores       *)

MaxVillages == 6

RankRows == {ExampleRow, MetRow}

RECURSIVE RowSeqs(_)
RowSeqs(n) ==
    IF n = 0 THEN { <<>> }
    ELSE { Append(rows, r) : rows \in RowSeqs(n - 1), r \in RankRows }

InitRank == \E n \in 1..MaxVillages : \E rows \in RowSeqs(n) : FirstRun(Frame(rows))

NextRank == Rerun

SpecRank == InitRank /\ [][NextRank]_vars

-----------------------------------------------------------------------------
(* Vocabulary of the properties *)

Shortfall(required, have) == IF have < required THEN required - have ELSE 0

\* the ceiling of x / d by its defining inequality, for x >= 0 and d > 0
CeilOf(x, d) == CHOOSE c \in (x \div d)..(x \div d + 1) : d * (c - 1) < x /\ x <= d * c

Severity(color) == CASE color = "green" -> 0 [] color = "orange" -> 1 [] color = "red" -> 2

Categories(gaps) == { gaps[i] : i \in 1..Len(gaps) }

\* the five contributions of section 4.1 for one village; the electricity
\* deficit is in half-hours, so a block of 4 hours is 8 of them
Contributions(row, t) ==
    LET toilets_short == Shortfall(required_toilets(row, t), row.toilets)
    IN  [ schools     |-> Shortfall(required_schools(row, t), row.schools),
          toilets     |-> IF toilets_short = 0 THEN 0 ELSE Min(5, CeilOf(toilets_short, 100)),
          PHCs        |-> 3 * Shortfall(required_PHCs(row, t), row.PHCs),
          water       |-> Shortfall(required_water(row, t), row.water_points),
          electricity |-> CeilOf(Shortfall(required_electricity(row, t), row.electricity_hours), 8) ]

AllFiveGaps == <<"Schools", "Toilets", "PHCs", "Water Points", "Electricity">>

-----------------------------------------------------------------------------
(* C1 *)

\* C1: for every village and every slider setting, the priority score that
\* calculate_gaps returns is a non-negative integer, it is the sum of the
\* five contributions (schools shortfall, min(5, ceil(toilet shortfall / 100)),
\* 3 x PHC shortfall, water shortfall, ceil(electricity deficit / 4)), and
\* it is 0 exactly when the list of gaps is empty.
C1_ScoreIsSumOfContributions ==
    \A i \in 1..Len(df) :
        LET c == Contributions(df[i], ADJUSTED_THRESHOLDS)
        IN  /\ df[i].priority_score \in Nat
            /\ df[i].priority_score =
                   c.schools + c.toilets + c.PHCs + c.water + c.electricity
            /\ (df[i].priority_score = 0) <=> (df[i].gaps_list = <<>>)

\* all five gaps at once, the toilet contribution at its cap, 1.1 toilets
\* per household wanted
C1_Witness ==
    /\ ADJUSTED_THRESHOLDS.toilets_per_household = 11
    /\ \E i \in 1..Len(df) :
          /\ df[i].gaps_list = AllFiveGaps
          /\ Shortfall(required_toilets(df[i], ADJUSTED_THRESHOLDS), df[i].toilets) >= 500
          /\ df[i].priority_score > 5

-----------------------------------------------------------------------------
(* C6 *)

IsExampleVillage(row) ==
    /\ row.population = 1000 /\ row.households = 100 /\ row.schools = 0
    /\ row.toilets = 0 /\ row.PHCs = 0 /\ row.water_points = 0
    /\ row.electricity_hours = 0

\* C6: under the default thresholds the village with population 1000, 100
\* households and nothing else has all five gaps, required 1 school, 100
\* toilets and 2 water points, contributions 1, 1, 3, 2 and 6, score 13 and
\* tier red.
C6_ExampleVillageScores13 ==
    \A i \in 1..Len(df) :
        (ADJUSTED_THRESHOLDS = BASE_THRESHOLDS /\ IsExampleVillage(df[i])) =>
            /\ df[i].gaps_list = AllFiveGaps
            /\ df[i].priority_score = 13
            /\ df[i].priority_color = "red"
            /\ df[i].improvements_list[1].target = 1
            /\ df[i].improvements_list[2].target = 100
            /\ df[i].improvements_list[4].target = 2
            /\ schools_rule(NoGaps, df[i], ADJUSTED_THRESHOLDS).score = 1
            /\ toilets_rule(NoGaps, df[i], ADJUSTED_THRESHOLDS).score = 1
            /\ PHCs_rule(NoGaps, df[i], ADJUSTED_THRESHOLDS).score = 3
            /\ water_rule(NoGaps, df[i], ADJUSTED_THRESHOLDS).score = 2
            /\ electricity_rule(NoGaps, df[i], ADJUSTED_THRESHOLDS).score = 6

C6_Witness ==
    /\ ADJUSTED_THRESHOLDS = BASE_THRESHOLDS
    /\ \E i \in 1..Len(df) : IsExampleVillage(df[i]) /\ df[i].priority_score = 13

-----------------------------------------------------------------------------
(* C9 *)

AtLeast(t1, t2) == \A name \in SliderNames : t1[name] <= t2[name]

LoosestThresholds ==
    [ name \in SliderNames |->
        CHOOSE x \in SliderRange[name] : \A y \in SliderRange[name] : x <= y ]

TightestThresholds ==
    [ name \in SliderNames |->
        CHOOSE x \in SliderRange[name] : \A y \in SliderRange[name] : x >= y ]

NoLowerThan(g1, g2) ==
    /\ g1.score <= g2.score
    /\ Categories(g1.gaps) \subseteq Categories(g2.gaps)

\* C9: a run of the script with a slider raised (no slider lowered) gives
\* no village a lower score and drops no gap category; a change of several
\* sliders is a sequence of such runs, each from a setting within bounds.
\* And under every setting a village scores at least what it scores with
\* all five sliders at their lowest, and at most what it scores with all
\* five at their highest, gap categories likewise.
C9_TighteningNeverLowers ==
    /\ [][ AtLeast(ADJUSTED_THRESHOLDS, ADJUSTED_THRESHOLDS') =>
              \A i \in 1..Len(df) :
                  /\ df'[i].priority_score >= df[i].priority_score
                  /\ Categories(df[i].gaps_list) \subseteq Categories(df'[i].gaps_list) ]_vars
    /\ [](\A i \in 1..Len(df) :
              LET here == [score |-> df[i].priority_score, gaps |-> df[i].gaps_list]
              IN  /\ NoLowerThan(calculate_gaps(loaded[i], LoosestThresholds), here)
                  /\ NoLowerThan(here, calculate_gaps(loaded[i], TightestThresholds)))

\* sliders at or above their defaults, and a village that scores more for it
C9_Witness ==
    /\ AtLeast(BASE_THRESHOLDS, ADJUSTED_THRESHOLDS)
    /\ ADJUSTED_THRESHOLDS # BASE_THRESHOLDS
    /\ \E i \in 1..Len(df) :
          /\ df[i].priority_score > calculate_gaps(loaded[i], BASE_THRESHOLDS).score
          /\ Categories(df[i].gaps_list) # Categories(calculate_gaps(loaded[i], BASE_THRESHOLDS).gaps)

-----------------------------------------------------------------------------
(* C2 *)

\* every score the run has classified, with the colour it was given
Classified ==
    { <<df[i].priority_score, df[i].priority_color>> : i \in 1..Len(df) }
    \cup IF sim.pressed
         THEN { <<sim.original_score, sim.original_color>>, <<sim.new_score, sim.new_color>> }
         ELSE {}

\* C2: every classified score is a non-negative integer with a colour: red
\* from 10 up, orange from 5 to 9, green below 5; and of two classified
\* scores the larger never has the less severe colour.
C2_ColorBandsMonotonic ==
    /\ \A p \in Classified :
          /\ p[1] \in Nat
          /\ p[2] \in {"red", "orange", "green"}
          /\ (p[2] = "red") <=> (p[1] >= 10)
          /\ (p[2] = "orange") <=> (5 <= p[1] /\ p[1] < 10)
          /\ (p[2] = "green") <=> (p[1] < 5)
    /\ \A p \in Classified : \A q \in Classified :
          p[1] <= q[1] => Severity(p[2]) <= Severity(q[2])

\* a simulation that takes a village across the boundary at 10
C2_Witness ==
    /\ sim.pressed
    /\ sim.original_score = 10 /\ sim.original_color = "red"
    /\ sim.new_score = 9 /\ sim.new_color = "orange"

-----------------------------------------------------------------------------
(* C3 *)

RawFrame(frame) == [ i \in 1..Len(frame) |-> Raw(frame[i]) ]

\* C3: a run in which Simulate is pressed leaves the stored collection as it
\* was (counts, hours, gaps, score and colour of every village), and the
\* analysis of that collection under the same thresholds gives the scores
\* it had before the simulation.
C3_SimulateLeavesCollection ==
    [][ sim'.pressed =>
          /\ df' = df
          /\ loaded' = loaded
          /\ RawFrame(df') = loaded
          /\ ApplyCalculations(RawFrame(df'), ADJUSTED_THRESHOLDS') = df ]_vars

\* two villages stored, one simulated into a better score
C3_Witness ==
    /\ sim.pressed
    /\ Len(df) = 2
    /\ sim.new_score < sim.original_score
    /\ sim.sim_row # FirstNamed(df, sim.sim_village)

-----------------------------------------------------------------------------
(* C5 *)

UpgradedField(infra) ==
    CASE infra = "School"            -> "schools"
      [] infra = "PHC"               -> "PHCs"
      [] infra = "Water Point"       -> "water_points"
      [] infra = "Toilet (100 HH)"   -> "toilets"
      [] infra = "Electricity Hours" -> "electricity_hours"

\* the fields in which the simulated copy differs from the selected village
ChangedFields(orig, copy) == { f \in DOMAIN orig : copy[f] # orig[f] }

\* the value the upgraded field has in the copy: School, PHC and Water Point
\* add the increment, Toilet adds 100 x the increment, Electricity Hours
\* gives min(24, hours + increment) (48 half-hours), never more than 24 hours
UpgradedAsStated(orig, copy, infra, k) ==
    /\ DOMAIN copy = DOMAIN orig
    /\ infra = "School" => copy.schools = orig.schools + k
    /\ infra = "PHC" => copy.PHCs = orig.PHCs + k
    /\ infra = "Water Point" => copy.water_points = orig.water_points + k
    /\ infra = "Toilet (100 HH)" => copy.toilets = orig.toilets + 100 * k
    /\ infra = "Electricity Hours" =>
          /\ copy.electricity_hours <= 48
          /\ \/ orig.electricity_hours + 2 * k <= 48
                /\ copy.electricity_hours = orig.electricity_hours + 2 * k
             \/ orig.electricity_hours + 2 * k > 48
                /\ copy.electricity_hours = 48

\* C5 as stated: the simulated copy differs from the selected village in
\* exactly one field, the upgraded one, which has the stated value.  Fails
\* for Electricity Hours on a village with exactly 24 hours.
C5_DiffersInExactlyOneField ==
    sim.pressed =>
        LET orig == FirstNamed(df, sim.sim_village)
            copy == sim.sim_row
        IN  /\ UpgradedAsStated(orig, copy, sim.infra, sim.increment)
            /\ ChangedFields(orig, copy) = {UpgradedField(sim.infra)}

\* C5, amended: the upgraded field of the simulated copy has the stated
\* value and the copy differs from the selected village in exactly that
\* field, except that Electricity Hours on a village with exactly 24 hours
\* gives a copy equal to the village in every field.
C5_SimulatedCopy ==
    sim.pressed =>
        LET orig == FirstNamed(df, sim.sim_village)
            copy == sim.sim_row
        IN  /\ UpgradedAsStated(orig, copy, sim.infra, sim.increment)
            /\ ChangedFields(orig, copy) =
                  IF sim.infra = "Electricity Hours" /\ orig.electricity_hours = 48
                  THEN {}
                  ELSE {UpgradedField(sim.infra)}

\* Electricity Hours simulated on a village with exactly 24 hours: the clamp
\* gives 24 again and the copy is the village
C5_Witness ==
    /\ sim.pressed
    /\ sim.infra = "Electricity Hours"
    /\ FirstNamed(df, sim.sim_village).electricity_hours = 48
    /\ sim.sim_row = FirstNamed(df, sim.sim_village)

\* the clamp at work: 23.5 hours and more than half an hour added
C5_ClampReached ==
    /\ sim.pressed
    /\ sim.infra = "Electricity Hours"
    /\ FirstNamed(df, sim.sim_village).electricity_hours = 47
    /\ sim.increment > 1
    /\ sim.sim_row.electricity_hours = 48
    /\ ChangedFields(FirstNamed(df, sim.sim_village), sim.sim_row) = {"electricity_hours"}

-----------------------------------------------------------------------------
(* C8 *)

\* C8: the score of the simulated copy is at most the village's score, and
\* its colour is no more severe, for every upgrade and increment, also when
\* the village has more than 24 hours and the clamp lowers them.
C8_UpgradeNeverWorse ==
    sim.pressed =>
        /\ sim.new_score <= sim.original_score
        /\ Severity(sim.new_color) <= Severity(sim.original_color)

\* the clamp lowers the hours of a village that has a gap elsewhere
C8_Witness ==
    /\ sim.pressed
    /\ sim.infra = "Electricity Hours"
    /\ sim.sim_row.electricity_hours < FirstNamed(df, sim.sim_village).electricity_hours
    /\ sim.original_score > 0

-----------------------------------------------------------------------------
(* C7 *)

\* what the toilet rule adds to a village's score
ToiletContribution(row, t) ==
    calculate_gaps(row, t).score
    - calculate_gaps([row EXCEPT !.toilets = required_toilets(row, t)], t).score

ToiletShortfall(row, t) == Shortfall(required_toilets(row, t), row.toilets)

\* C7: of two villages the one with the larger toilet shortfall has at least
\* the toilet contribution of the other; the contribution is at least 1 for
\* a positive shortfall, never above 5, and 5 from a shortfall of 500 on.
C7_ToiletContributionCapped ==
    \A i \in 1..Len(df) :
        LET t  == ADJUSTED_THRESHOLDS
            si == ToiletShortfall(df[i], t)
            ci == ToiletContribution(df[i], t)
        IN  /\ si > 0 => ci >= 1
            /\ ci <= 5
            /\ si >= 500 => ci = 5
            /\ \A j \in 1..Len(df) :
                   si <= ToiletShortfall(df[j], t) => ci <= ToiletContribution(df[j], t)

\* 1.1 toilets per household wanted: shortfalls of 60 and of 560 side by side
C7_Witness ==
    /\ Len(df) = 2
    /\ ADJUSTED_THRESHOLDS.toilets_per_household = 11
    /\ ToiletShortfall(df[1], ADJUSTED_THRESHOLDS) = 60
    /\ ToiletShortfall(df[2], ADJUSTED_THRESHOLDS) = 560
    /\ df[1].priority_score = 1
    /\ df[2].priority_score = 5

-----------------------------------------------------------------------------
(* C10 *)

\* the dashboard's name for a prototype label
DashboardLabel(label) ==
    CASE label = "PHC" -> "PHCs" [] label = "Water" -> "Water Points" [] OTHER -> label

\* C10: once the prototype has run, under the base thresholds it gives
\* every village the dashboard's score and, with PHC read as PHCs and Water
\* as Water Points, the dashboard's set of gap categories.
C10_PrototypeAgrees ==
    (proto.ran /\ ADJUSTED_THRESHOLDS = BASE_THRESHOLDS) =>
        /\ Len(proto.df) = Len(df)
        /\ \A i \in 1..Len(df) :
              /\ proto.df[i].priority_score = df[i].priority_score
              /\ { DashboardLabel(g) : g \in Categories(proto.df[i].gaps_list) }
                    = Categories(df[i].gaps_list)

\* a village short of a PHC and of water points, scored by both
C10_Witness ==
    /\ proto.ran
    /\ ADJUSTED_THRESHOLDS = BASE_THRESHOLDS
    /\ \E i \in 1..Len(df) :
          /\ {"PHC", "Water"} \subseteq Categories(proto.df[i].gaps_list)
          /\ {"PHCs", "Water Points"} \subseteq Categories(df[i].gaps_list)
          /\ df[i].priority_score > 10

-----------------------------------------------------------------------------
(* C4 *)

\* C4: villages of equal priority score stand in the ranking in the order
\* they have in the input.
C4_RankingStable ==
    \A a \in 1..Len(top_villages) : \A b \in 1..Len(top_villages) :
        (a < b /\ top_villages[a].priority_score = top_villages[b].priority_score)
            => top_villages[a].index < top_villages[b].index

\* what the ranking does keep: it is a part of the frame, of at most five
\* rows, in non-increasing score, and no row left out outscores a row in it
RankingSortedByScore ==
    /\ Len(top_villages) = Min(5, Len(df))
    /\ \A a \in 1..Len(top_villages) : \E i \in 1..Len(df) : top_villages[a] = df[i]
    /\ \A a \in 1..Len(top_villages) : \A b \in 1..Len(top_villages) :
          a < b => /\ top_villages[a].priority_score >= top_villages[b].priority_score
                   /\ top_villages[a].index # top_villages[b].index
    /\ \A i \in 1..Len(df) :
          (\A a \in 1..Len(top_villages) : top_villages[a] # df[i]) =>
              \A a \in 1..Len(top_villages) :
                  top_villages[a].priority_score >= df[i].priority_score

=============================================================================
